---- MODULE Spec2Model ----
(***************************************************************************)
(* Model of the `windowed` crate (src/src/lib.rs): a Container overlays    *)
(* its Windows into a sparse buffer keyed by absolute position and keeps   *)
(* the list of positions it wrote during the last refresh.                 *)
(*                                                                         *)
(* A Point is a pair <<x, y>>.  A Window is a record                       *)
(* [top_left |-> Point, data |-> sequence of rows], a row being a sequence *)
(* of cell values.  The HashMap buffer is a function whose DOMAIN is the   *)
(* set of keys.  Coordinates stay far below the i32 range, so Point's      *)
(* addition is plain integer addition here.                                *)
(***************************************************************************)
EXTENDS Integers, Sequences, FiniteSets, TLC

VARIABLES
    windows,    \* Container.windows: Vec<Window<T>>, the paint order
    buffer,     \* Container.buffer: HashMap<Point, T>
    changed,    \* Container.changed: Vec<Point>
    out,        \* the last call of to_string_with_default: its arguments,
                \* the buffer it read and the String it returned
    got,        \* the last call of changed() or get_buffer() and the slice
                \* or map it returned
    refreshes,  \* history: number of refresh calls so far, counted up to 2
    clean,      \* history: TRUE iff the caller touched no window since the
                \*          last refresh (or since Container::new)
    mut         \* history: the caller's mutations of the latest interval
                \*          between refreshes (the running interval if ~clean,
                \*          the one the last refresh closed if clean): op is
                \*          "none" for no mutation, "add", "set" or "remove"
                \*          for a single one and "many" for more, pos is the
                \*          position a single "set" wrote, gone the positions
                \*          of all the windows removed

vars == <<windows, buffer, changed, out, got, refreshes, clean, mut>>

----------------------------------------------------------------------------
(* Bounds and input sets *)

MaxCells == 4
MaxMatWins == 2
MaxWid == 3
MaxHgt == 3

MaxRows == 3
MaxText == 3

Vals == {"a", "b"}

\* The strings handed to write_str: up to MaxText characters, letters and
\* line feeds; a string is a sequence of one-character strings.
Texts == UNION { [1..n -> Vals \cup {"\n"}] : n \in 0..MaxText }

\* The rows the caller pushes onto a window's data directly.
PushedRows == { <<>>, <<"a">> }
Defaults == {" ", "a"}

\* Row shapes are sequences of row lengths; a shape with rows of different
\* lengths is a ragged grid.
RowsOf(len) == [1..len -> Vals]

GridsOf(shape) ==
    {g \in [1..Len(shape) -> UNION {RowsOf(shape[r]) : r \in 1..Len(shape)}] :
        \A r \in 1..Len(shape) : Len(g[r]) = shape[r]}

Uniform(shape, v) == [r \in 1..Len(shape) |-> [c \in 1..shape[r] |-> v]]

\* Windows the caller hands to add_win in the general specification: one row
\* of two cells at the origin, and a ragged grid (empty first row) anchored
\* in row -1; both cover the absolute position <<1, 0>>.
Templates ==
    { [top_left |-> <<0, 0>>,  shape |-> <<2>>],
      [top_left |-> <<1, -1>>, shape |-> <<0, 1>>] }

WinInputs ==
    UNION { { [top_left |-> t.top_left, data |-> g] : g \in GridsOf(t.shape) }
            : t \in Templates }

\* Windows of the materialize specification: uniformly filled rectangles (a
\* 2x2 block at the origin, a single cell at <<1, 1>>) and a row of two
\* different cells that starts left of column 0, in row 2.
MatInputs ==
    { [top_left |-> <<0, 0>>, data |-> Uniform(<<2, 2>>, v)] : v \in Vals }
    \cup { [top_left |-> <<1, 1>>, data |-> Uniform(<<1>>, v)] : v \in Vals }
    \cup { [top_left |-> <<-1, 2>>, data |-> << <<"b", "a">> >>] }

----------------------------------------------------------------------------
(* Helpers *)

Range(s) == {s[i] : i \in 1..Len(s)}

EmptyBuffer == [p \in {} |-> "a"]

NoMut == [op |-> "none", pos |-> <<0, 0>>, gone |-> {}]

NulChar == "NUL"

NoRead == [call |-> "none", changed |-> <<>>, buffer |-> EmptyBuffer]

NoCall == [wid |-> 0, hgt |-> 0, default |-> " ", buf |-> EmptyBuffer,
           text |-> <<>>]

\* A slip of AbsPos: column and row offsets exchanged.
AbsPosTransposed(win, x, y) == <<y + win.top_left[1], x + win.top_left[2]>>

\* Point::new(x as i32, y as i32) + win.top_left, for the zero-based column x
\* and row y of a cell.
AbsPos(win, x, y) == <<x + win.top_left[1], y + win.top_left[2]>>

\* Anchor + (column, row) for the cell in row r, column c of a window, both
\* one-based as in the sequences (zero-based offsets c - 1 and r - 1).
CellPos(win, r, c) == <<win.top_left[1] + (c - 1), win.top_left[2] + (r - 1)>>

\* The absolute positions of the cells of a window.
Cells(win) ==
    UNION { {CellPos(win, r, c) : c \in 1..Len(win.data[r])}
            : r \in 1..Len(win.data) }

\* The number of cells of a window, and of a list of windows.
Size(win) == Cardinality(Cells(win))

RECURSIVE TotalSize(_)
TotalSize(wins) ==
    IF wins = <<>> THEN 0 ELSE Size(Head(wins)) + TotalSize(Tail(wins))

\* The absolute positions covered by a list of windows.
Cover(wins) == UNION {Cells(wins[i]) : i \in 1..Len(wins)}

----------------------------------------------------------------------------
(* Container::refresh, lines 114-134 *)

\* A slip of Visit: a position already written is left alone (the first
\* writer wins).
VisitFirstWins(st, p, ch) ==
    IF p \notin DOMAIN st.buffer
    THEN [buffer  |-> [q \in DOMAIN st.buffer \cup {p} |->
                          IF q = p THEN ch ELSE st.buffer[q]],
          changed |-> Append(st.changed, p)]
    ELSE st

\* A slip of Visit: a position is pushed to changed only when a value it
\* already holds is overwritten, not when it is first written.
VisitReportsOverwrites(st, p, ch) ==
    IF p \notin DOMAIN st.buffer
    THEN [buffer  |-> [q \in DOMAIN st.buffer \cup {p} |->
                          IF q = p THEN ch ELSE st.buffer[q]],
          changed |-> st.changed]
    ELSE IF st.buffer[p] # ch
    THEN [buffer  |-> [st.buffer EXCEPT ![p] = ch],
          changed |-> Append(st.changed, p)]
    ELSE st

\* Lines 126-130: one cell ch at absolute position p, against the buffer
\* being rebuilt.
Visit(st, p, ch) ==
    IF p \notin DOMAIN st.buffer \/ st.buffer[p] # ch
    THEN [buffer  |-> [q \in DOMAIN st.buffer \cup {p} |->
                          IF q = p THEN ch ELSE st.buffer[q]],
          changed |-> Append(st.changed, p)]
    ELSE st

\* A slip of ScanRow: the cells of the row are visited right to left.
RECURSIVE ScanRowRightToLeft(_, _, _, _)
ScanRowRightToLeft(st, win, r, c) ==
    IF c > Len(win.data[r]) THEN st
    ELSE LET k == Len(win.data[r]) - c + 1
         IN  ScanRowRightToLeft(
                 Visit(st, AbsPos(win, k - 1, r - 1), win.data[r][k]),
                 win, r, c + 1)

\* Line 123: the cells c.. of row r of win, left to right.
RECURSIVE ScanRow(_, _, _, _)
ScanRow(st, win, r, c) ==
    IF c > Len(win.data[r]) THEN st
    ELSE ScanRow(Visit(st, AbsPos(win, c - 1, r - 1), win.data[r][c]),
                 win, r, c + 1)

\* A slip of ScanWin: the first row of every window is skipped.
RECURSIVE ScanWinSkipFirst(_, _, _)
ScanWinSkipFirst(st, win, r) ==
    IF r > Len(win.data) THEN st
    ELSE ScanWinSkipFirst(IF r = 1 THEN st ELSE ScanRow(st, win, r, 1),
                          win, r + 1)

\* Line 122: the rows r.. of win, top to bottom.
RECURSIVE ScanWin(_, _, _)
ScanWin(st, win, r) ==
    IF r > Len(win.data) THEN st
    ELSE ScanWin(ScanRow(st, win, r, 1), win, r + 1)

\* Line 121: the windows i.. in paint order.
RECURSIVE ScanAll(_, _, _)
ScanAll(st, wins, i) ==
    IF i > Len(wins) THEN st
    ELSE ScanAll(ScanWin(st, wins[i], 1), wins, i + 1)

\* A slip of Cleared: the scan starts from the buffer of the last refresh.
NotCleared(buf) == [buffer |-> buf, changed |-> <<>>]

\* Lines 118-119: the buffer is cleared and changed replaced by an empty Vec
\* before the scan; the buffer held at the call does not enter the result.
Cleared(buf) == [buffer |-> EmptyBuffer, changed |-> <<>>]

Refreshed(wins, buf) == ScanAll(Cleared(buf), wins, 1)

----------------------------------------------------------------------------
(* Container::to_string_with_default, lines 174-198 *)

\* A slip of CellText: the buffer is read at <<y, x>>.
CellTextTransposed(buf, x, y, default) ==
    IF <<y, x>> \in DOMAIN buf THEN buf[<<y, x>>] ELSE default

\* Lines 186-192: the text of the cell at <<x, y>>; a char displays as itself.
CellText(buf, x, y, default) ==
    IF <<x, y>> \in DOMAIN buf THEN buf[<<x, y>>] ELSE default

\* Lines 183-194: row y is the cells x = 0 .. wid-1 followed by a line feed.
RowText(buf, wid, y, default) ==
    [i \in 1..wid + 1 |->
        IF i <= wid THEN CellText(buf, i - 1, y, default) ELSE "\n"]

\* Lines 182-197: the rows y = 0 .. hgt-1 one after the other; the String is
\* a sequence of one-character strings.
RECURSIVE Rendered(_, _, _, _, _)
Rendered(buf, wid, hgt, default, y) ==
    IF y >= hgt THEN <<>>
    ELSE RowText(buf, wid, y, default) \o Rendered(buf, wid, hgt, default, y + 1)

----------------------------------------------------------------------------
(* Window::new, lines 18-23, and Window<char>::write_str, lines 59-76 *)

NewWindow(top_left) == [top_left |-> top_left, data |-> <<>>]

\* The index of the first line feed of s, 0 if it has none.
FirstBreak(s) ==
    IF \E k \in 1..Len(s) : s[k] = "\n"
    THEN CHOOSE k \in 1..Len(s) :
            s[k] = "\n" /\ \A j \in 1..k - 1 : s[j] # "\n"
    ELSE 0

\* Line 68, str::lines: the pieces of s between line feeds; a line feed that
\* ends s opens no further line, and the empty string has no line.  (Carriage
\* returns, which lines() also strips before a line feed, are not among the
\* characters of Texts.)
RECURSIVE Lines(_)
Lines(s) ==
    IF s = <<>> THEN <<>>
    ELSE IF FirstBreak(s) = 0 THEN <<s>>
    ELSE <<SubSeq(s, 1, FirstBreak(s) - 1)>>
         \o Lines(SubSeq(s, FirstBreak(s) + 1, Len(s)))

\* Lines 68-72: each line is appended to the row at cur (one-based here) and
\* an empty row is pushed at the end of the grid.
RECURSIVE WriteLines(_, _, _)
WriteLines(data, cur, lines) ==
    IF lines = <<>> THEN data
    ELSE WriteLines(Append([data EXCEPT ![cur] = @ \o Head(lines)], <<>>),
                    cur + 1, Tail(lines))

\* Lines 61-66: a grid without rows first gets an empty row; writing starts
\* at the last row.
Written(data, s) ==
    LET start == IF Len(data) = 0 THEN << <<>> >> ELSE data
    IN  WriteLines(start, Len(start), Lines(s))

----------------------------------------------------------------------------
(* State machine *)

\* Container::new, lines 90-96.
Init ==
    /\ windows = <<>>
    /\ buffer = EmptyBuffer
    /\ changed = <<>>
    /\ out = NoCall
    /\ got = NoRead
    /\ refreshes = 0
    /\ clean = TRUE
    /\ mut = NoMut

\* History of one caller mutation: op at position pos, taking the positions
\* gone out of the window list.
Mutated(op, pos, gone) ==
    /\ clean' = FALSE
    /\ mut' = IF clean
              THEN [op |-> op, pos |-> pos, gone |-> gone]
              ELSE [op |-> "many", pos |-> <<0, 0>>,
                    gone |-> mut.gone \cup gone]
    /\ UNCHANGED refreshes

\* A slip of add_win: the window is inserted at the front of the Vec
\* (insert(0, win) in place of push(win)).
add_winFront(win) ==
    /\ windows' = <<win>> \o windows
    /\ UNCHANGED <<buffer, changed, out, got>>
    /\ Mutated("add", <<0, 0>>, {})

\* Container::add_win, lines 99-101.
add_win(win) ==
    /\ windows' = Append(windows, win)
    /\ UNCHANGED <<buffer, changed, out, got>>
    /\ Mutated("add", <<0, 0>>, {})

\* The caller assigns the cell in row r, column c (one-based) of window i a
\* different value through the public fields windows and data.
set_cell(i, r, c, v) ==
    /\ i \in 1..Len(windows)
    /\ r \in 1..Len(windows[i].data)
    /\ c \in 1..Len(windows[i].data[r])
    /\ windows[i].data[r][c] # v
    /\ windows' = [windows EXCEPT ![i].data[r][c] = v]
    /\ UNCHANGED <<buffer, changed, out, got>>
    /\ Mutated("set", CellPos(windows[i], r, c), {})

\* The caller removes window i through the public field windows
\* (Vec::remove).
remove_win(i) ==
    /\ i \in 1..Len(windows)
    /\ windows' = [k \in 1..Len(windows) - 1 |->
                      IF k < i THEN windows[k] ELSE windows[k + 1]]
    /\ UNCHANGED <<buffer, changed, out, got>>
    /\ Mutated("remove", <<0, 0>>, Cells(windows[i]))

\* A slip of refresh: the windows are moved out of the Vec while they are
\* scanned (drain(..) in place of iter()).
refreshDraining ==
    /\ buffer' = Refreshed(windows, buffer).buffer
    /\ changed' = Refreshed(windows, buffer).changed
    /\ windows' = <<>>
    /\ UNCHANGED <<out, got>>
    /\ refreshes' = IF refreshes < 2 THEN refreshes + 1 ELSE 2
    /\ clean' = TRUE
    /\ mut' = IF clean THEN NoMut ELSE mut

\* Container::refresh, lines 114-134.
refresh ==
    /\ buffer' = Refreshed(windows, buffer).buffer
    /\ changed' = Refreshed(windows, buffer).changed
    /\ UNCHANGED <<windows, out, got>>
    /\ refreshes' = IF refreshes < 2 THEN refreshes + 1 ELSE 2
    /\ clean' = TRUE
    /\ mut' = IF clean THEN NoMut ELSE mut

\* Container::to_string_with_default, lines 174-198.
to_string_with_default(wid, hgt, default) ==
    /\ out' = [wid |-> wid, hgt |-> hgt, default |-> default, buf |-> buffer,
               text |-> Rendered(buffer, wid, hgt, default, 0)]
    /\ UNCHANGED <<windows, buffer, changed, got, refreshes, clean, mut>>

\* Container::to_string, lines 203-208: the default is T::default(), for
\* char the character U+0000, written NulChar here.
to_string(wid, hgt) == to_string_with_default(wid, hgt, NulChar)

\* Container::changed, lines 104-106.
get_changed ==
    /\ got' = [NoRead EXCEPT !.call = "changed", !.changed = changed]
    /\ UNCHANGED <<windows, buffer, changed, out, refreshes, clean, mut>>

\* Container::get_buffer, lines 109-111.
get_buffer ==
    /\ got' = [NoRead EXCEPT !.call = "get_buffer", !.buffer = buffer]
    /\ UNCHANGED <<windows, buffer, changed, out, refreshes, clean, mut>>

\* The caller pushes a row onto the data of window i through the public
\* fields windows and data (Vec::push).
push_row(i, row) ==
    /\ i \in 1..Len(windows)
    /\ windows' = [windows EXCEPT ![i].data = Append(@, row)]
    /\ UNCHANGED <<buffer, changed, out, got>>
    /\ Mutated("push", <<0, 0>>, {})

\* Window<char>::write_str, lines 59-76, on window i of the container.
write_str(i, s) ==
    /\ i \in 1..Len(windows)
    /\ windows' = [windows EXCEPT ![i].data = Written(@, s)]
    /\ UNCHANGED <<buffer, changed, out, got>>
    /\ Mutated("write", <<0, 0>>, {})

\* The general specification: a caller that adds, edits and removes windows
\* and refreshes at will; the windows hold at most MaxCells cells in all.
Next ==
    \/ \E win \in WinInputs :
          TotalSize(windows) + Size(win) <= MaxCells /\ add_win(win)
    \/ \E i \in 1..Len(windows) :
          \E r \in 1..Len(windows[i].data) :
             \E c \in 1..Len(windows[i].data[r]), v \in Vals :
                set_cell(i, r, c, v)
    \/ \E i \in 1..Len(windows) : remove_win(i)
    \/ refresh

Spec == Init /\ [][Next]_vars

\* The materialize specification: up to MaxMatWins windows are added, never
\* edited, and the buffer is rendered at every size up to MaxWid x MaxHgt.
NextMat ==
    \/ \E win \in MatInputs : Len(windows) < MaxMatWins /\ add_win(win)
    \/ refresh
    \/ \E wid \in 0..MaxWid, hgt \in 0..MaxHgt, default \in Defaults :
          to_string_with_default(wid, hgt, default)

SpecMat == Init /\ [][NextMat]_vars

\* The text specification: one new window is added to the container and
\* filled by pushed rows and by write_str, up to MaxRows rows.
NextWrite ==
    \/ Len(windows) = 0 /\ add_win(NewWindow(<<0, 0>>))
    \/ \E i \in 1..Len(windows), row \in PushedRows :
          Len(windows[i].data) < MaxRows /\ push_row(i, row)
    \/ \E i \in 1..Len(windows), s \in Texts :
          Len(windows[i].data) + Len(Lines(s)) <= MaxRows /\ write_str(i, s)
    \/ refresh

SpecWrite == Init /\ [][NextWrite]_vars

\* The windows of the read specification: the one-row windows of MatInputs.
ReadInputs == { win \in MatInputs : Len(win.data) = 1 }

\* The read specification: up to MaxMatWins windows are added and refreshed,
\* and the container is read through every accessor.
NextRead ==
    \/ \E win \in ReadInputs : Len(windows) < MaxMatWins /\ add_win(win)
    \/ refresh
    \/ \E wid \in {0, MaxWid}, default \in Defaults :
          to_string_with_default(wid, MaxHgt, default)
    \/ \E wid \in {0, MaxWid} : to_string(wid, MaxHgt)
    \/ get_changed
    \/ get_buffer

SpecRead == Init /\ [][NextRead]_vars

----------------------------------------------------------------------------
(* Vocabulary of the properties *)

\* The state is the one a refresh left: no window was touched since.
AfterRefresh == clean /\ refreshes >= 1

\* The state a first refresh left.
AfterFirstRefresh == clean /\ refreshes = 1

\* The state a second or later refresh left.
AfterLaterRefresh == clean /\ refreshes = 2

NoDuplicates(s) == \A i, j \in 1..Len(s) : s[i] = s[j] => i = j

\* The indices of the windows that have a cell at absolute position p.
Covering(wins, p) == {i \in 1..Len(wins) : p \in Cells(wins[i])}

\* The value window win holds at absolute position p (p \in Cells(win)).
ValueAt(win, p) ==
    win.data[p[2] - win.top_left[2] + 1][p[1] - win.top_left[1] + 1]

\* The latest window of the paint order among those covering p.
Topmost(wins, p) ==
    CHOOSE i \in Covering(wins, p) : \A j \in Covering(wins, p) : j <= i

\* The values the windows hold at p.
ValuesAt(wins, p) == {ValueAt(wins[i], p) : i \in Covering(wins, p)}

----------------------------------------------------------------------------
(* C1 .. C10 *)

\* C1 (as claimed; refuted): a refresh called right after a refresh, with no
\* window touched in between, leaves changed empty and the buffer as it was.
C1_Idempotence ==
    [][(refresh /\ AfterRefresh) => (changed' = <<>> /\ buffer' = buffer)]_vars

\* C2 (as claimed; refuted): when the only mutation between two refreshes set
\* one cell to a different value and no other window covers the cell's
\* position, changed after the second refresh is exactly that position.
C2_ValueChangeDetection ==
    (AfterLaterRefresh /\ mut.op = "set"
        /\ Cardinality(Covering(windows, mut.pos)) = 1)
    => changed = <<mut.pos>>

\* C3 (as claimed; refuted): a refresh lists position p in changed exactly
\* when some cell it writes at p finds no value at p in the buffer held when
\* the call began, or a value different from its own.
C3_DiffAgainstPriorBuffer ==
    [][refresh =>
        \A p \in Cover(windows) \cup Range(changed') :
            (p \in Range(changed'))
            <=> (\E v \in ValuesAt(windows, p) :
                    p \notin DOMAIN buffer \/ buffer[p] # v)]_vars

\* C4 (as claimed; refuted): after the first refresh of a container holding
\* at least one cell, changed lists exactly the covered positions, each once.
C4_FirstRefreshChangeSet ==
    (AfterFirstRefresh /\ Cover(windows) # {})
    => (Range(changed) = Cover(windows) /\ Len(changed) = Cardinality(Cover(windows)))

\* C5 (as claimed; refuted): after any refresh no position occurs twice in
\* changed.
C5_NoDuplicatesInChanged == AfterRefresh => NoDuplicates(changed)

\* C6: after a refresh, every covered position holds in the buffer the value
\* of the latest window of the paint order that covers it.
C6_PaintOrder ==
    AfterRefresh =>
        \A p \in Cover(windows) :
            /\ p \in DOMAIN buffer
            /\ buffer[p] = ValueAt(windows[Topmost(windows, p)], p)

\* C6 witness: after a second refresh three windows cover one position, the
\* first two with different values there, the last two with equal values.
C6_Witness ==
    /\ AfterLaterRefresh
    /\ Len(windows) = 3
    /\ \E p \in Cover(windows) :
          /\ Covering(windows, p) = {1, 2, 3}
          /\ ValueAt(windows[1], p) # ValueAt(windows[2], p)
          /\ ValueAt(windows[2], p) = ValueAt(windows[3], p)
          /\ buffer[p] = ValueAt(windows[3], p)

\* C7: after a refresh, the cell in row r, column c of a window anchored at A
\* is the buffer's value at A + (c, r) (zero-based offsets), unless a window
\* later in the paint order covers that position.
C7_FlattenCorrectness ==
    AfterRefresh =>
        \A i \in 1..Len(windows) :
            \A r \in 1..Len(windows[i].data) :
                \A c \in 1..Len(windows[i].data[r]) :
                    LET p == <<windows[i].top_left[1] + (c - 1),
                               windows[i].top_left[2] + (r - 1)>>
                    IN  (\A j \in Covering(windows, p) : j <= i)
                        => /\ p \in DOMAIN buffer
                           /\ buffer[p] = windows[i].data[r][c]

\* C7 witness: after a refresh a one-row window shows its first cell at
\* <<0, 0>> while a ragged window (empty first row, anchor <<1, -1>>) painted
\* later shows its cell at <<1, 0>>, over the row's second cell of another
\* value.
C7_Witness ==
    /\ AfterRefresh
    /\ \E i, j \in 1..Len(windows) :
          /\ i < j
          /\ windows[i].top_left = <<0, 0>>
          /\ Len(windows[i].data[1]) = 2
          /\ Covering(windows, <<0, 0>>) = {i}
          /\ windows[i].data[1][1] # windows[i].data[1][2]
          /\ buffer[<<0, 0>>] = windows[i].data[1][1]
          /\ windows[j].top_left = <<1, -1>>
          /\ windows[j].data[1] = <<>>
          /\ Covering(windows, <<1, 0>>) = {i, j}
          /\ windows[j].data[2][1] # windows[i].data[1][2]
          /\ buffer[<<1, 0>>] = windows[j].data[2][1]

\* C8: after a refresh that follows a refresh, the positions of the windows
\* removed in between that no remaining window covers are neither keys of the
\* buffer nor listed in changed; after any refresh every position in changed
\* is a key of the buffer.
C8_DisappearanceAsymmetry ==
    /\ AfterLaterRefresh =>
          \A p \in mut.gone \ Cover(windows) :
              p \notin DOMAIN buffer /\ p \notin Range(changed)
    /\ AfterRefresh => Range(changed) \subseteq DOMAIN buffer

\* C8 witness: the only mutation between two refreshes removed a window, one
\* of its positions is left uncovered, another window is still painted.
C8_Witness ==
    /\ AfterLaterRefresh
    /\ mut.op = "remove"
    /\ mut.gone \ Cover(windows) # {}
    /\ changed # <<>>

\* C9: the String returned for (wid, hgt, default) is hgt rows of wid cells
\* in row-major order, each row closed by a line feed; the cell at (x, y) is
\* the buffer's value at <<x, y>> if the buffer has that key and default
\* otherwise.
C9_MaterializeFill ==
    /\ Len(out.text) = out.hgt * (out.wid + 1)
    /\ \A y \in 0..out.hgt - 1 :
          /\ out.text[(y + 1) * (out.wid + 1)] = "\n"
          /\ \A x \in 0..out.wid - 1 :
                out.text[y * (out.wid + 1) + x + 1] =
                    IF <<x, y>> \in DOMAIN out.buf
                    THEN out.buf[<<x, y>>] ELSE out.default

\* C9 witness: a rendering, higher than wide, of a buffer with keys inside
\* the rectangle, keys outside it (left of column 0 and right of column 1)
\* and an uncovered position inside it.
C9_Witness ==
    /\ out.wid = 2
    /\ out.hgt = 3
    /\ DOMAIN out.buf = {<<1, 1>>, <<-1, 2>>, <<0, 2>>}
    /\ out.default = " "
    /\ out.text = << " ", " ", "\n",
                     " ", out.buf[<<1, 1>>], "\n",
                     out.buf[<<0, 2>>], " ", "\n" >>

\* The windows of the end-to-end scenario.
E2EWindows ==
    << [top_left |-> <<0, 0>>, data |-> << <<"a", "a">>, <<"a", "a">> >>],
       [top_left |-> <<1, 1>>, data |-> << <<"b">> >>] >>

\* C10 (as claimed; refuted): with A (2x2 of 'a' at (0,0)) then B (1x1 of 'b'
\* at (1,1)) added to a new container, the first refresh leaves the buffer
\* {(0,0):a, (1,0):a, (0,1):a, (1,1):b} and changed = (0,0), (1,0), (0,1),
\* (1,1); rendering 3x3 with default ' ' gives "aa ", "ab ", "   ".
C10_EndToEnd ==
    (windows = E2EWindows /\ AfterFirstRefresh) =>
        /\ DOMAIN buffer = {<<0, 0>>, <<1, 0>>, <<0, 1>>, <<1, 1>>}
        /\ buffer[<<0, 0>>] = "a"
        /\ buffer[<<1, 0>>] = "a"
        /\ buffer[<<0, 1>>] = "a"
        /\ buffer[<<1, 1>>] = "b"
        /\ changed = << <<0, 0>>, <<1, 0>>, <<0, 1>>, <<1, 1>> >>
        /\ (out.buf = buffer /\ out.wid = 3 /\ out.hgt = 3 /\ out.default = " ")
            => out.text = << "a", "a", " ", "\n",
                             "a", "b", " ", "\n",
                             " ", " ", " ", "\n" >>

\* The sequence s without the later occurrences of its elements.
RECURSIVE KeepFirst(_)
KeepFirst(s) ==
    IF s = <<>> THEN <<>>
    ELSE LET init == KeepFirst(SubSeq(s, 1, Len(s) - 1))
         IN  IF s[Len(s)] \in Range(init) THEN init
             ELSE Append(init, s[Len(s)])

\* The positions of one row of a window, left to right; of a window, rows
\* top to bottom; of a list of windows, in paint order.
RowOrder(win, r) == [c \in 1..Len(win.data[r]) |-> CellPos(win, r, c)]

RECURSIVE WinOrder(_, _)
WinOrder(win, n) ==
    IF n = 0 THEN <<>> ELSE WinOrder(win, n - 1) \o RowOrder(win, n)

RECURSIVE ListOrder(_, _)
ListOrder(wins, n) ==
    IF n = 0 THEN <<>>
    ELSE ListOrder(wins, n - 1) \o WinOrder(wins[n], Len(wins[n].data))

\* C11: after a refresh, the positions of changed, each taken at its first
\* occurrence, are the covered positions in the order the scan first reaches
\* them: windows in paint order, rows top to bottom, cells left to right.
C11_DiscoveryOrder ==
    AfterRefresh =>
        KeepFirst(changed) = KeepFirst(ListOrder(windows, Len(windows)))

\* C11 witness: after a refresh of two windows, the first with two rows of
\* two cells, changed lists four positions and one of them again.
C11_Witness ==
    /\ AfterRefresh
    /\ Len(windows) = 2
    /\ Len(windows[1].data) = 2
    /\ Cardinality(Range(changed)) = 4
    /\ Len(changed) = 5

\* C12 (as claimed; refuted): after any write_str call, whatever the text
\* and the rows held before, the last row of the grid is empty.
C12_TrailingEmptyRow ==
    [][\A i \in 1..Len(windows), s \in Texts :
          write_str(i, s) =>
              /\ windows'[i].data # <<>>
              /\ windows'[i].data[Len(windows'[i].data)] = <<>>]_vars

\* C13 (as claimed; refuted): write_str places the lines of the text in
\* order in consecutive rows of their own, after every row that held cells
\* before the call and leaving those rows as they were; on a grid without
\* rows the first line is row 0.
C13_LineToRowMapping ==
    [][\A i \in 1..Len(windows), s \in Texts :
          write_str(i, s) =>
              LET old == windows[i].data
                  new == windows'[i].data
                  lines == Lines(s)
              IN  \E first \in 1..Len(new) + 1 :
                     /\ first + Len(lines) - 1 <= Len(new)
                     /\ \A j \in 1..Len(lines) : new[first + j - 1] = lines[j]
                     /\ \A r \in 1..Len(old) :
                           old[r] # <<>> => (r < first /\ new[r] = old[r])
                     /\ (old = <<>> /\ lines # <<>>) => first = 1]_vars

\* C14: refresh leaves the window list, with every window's top_left and
\* data, as it was; to_string_with_default, to_string, changed() and
\* get_buffer() leave the window list, the buffer and changed as they were.
C14_ReadAndRefreshFrame ==
    [][/\ refresh => windows' = windows
       /\ (\/ \E wid \in {0, MaxWid}, default \in Defaults :
                 to_string_with_default(wid, MaxHgt, default)
           \/ \E wid \in {0, MaxWid} : to_string(wid, MaxHgt)
           \/ get_changed
           \/ get_buffer)
          => /\ windows' = windows
             /\ buffer' = buffer
             /\ changed' = changed]_vars

\* C14 witness: windows were refreshed, then rendered and read, and the
\* container still holds them and the refresh's buffer and changed.
C14_Witness ==
    /\ AfterRefresh
    /\ Len(windows) = 2
    /\ changed # <<>>
    /\ out.wid = MaxWid
    /\ out.default = NulChar
    /\ out.buf = buffer
    /\ got.call = "changed"
    /\ got.changed = changed

\* C15: a step that adds a window puts it last in the window list and
\* leaves the earlier windows as they were; every step of the caller other
\* than refresh (adding, editing or removing windows) leaves the buffer and
\* changed as the last refresh left them.
C15_OnlyRefreshMovesBuffer ==
    [][/\ Len(windows') > Len(windows) =>
             /\ Len(windows') = Len(windows) + 1
             /\ SubSeq(windows', 1, Len(windows)) = windows
             /\ mut'.op \in {"add", "many"}
       /\ ~clean' => (buffer' = buffer /\ changed' = changed)]_vars

\* C15 witness: after a refresh a window was added behind another one; it
\* covers a position the buffer does not hold yet.
C15_Witness ==
    /\ refreshes >= 1
    /\ ~clean
    /\ mut.op = "add"
    /\ Len(windows) >= 2
    /\ changed # <<>>
    /\ Cells(windows[Len(windows)]) \ DOMAIN buffer # {}

\* C16: after a refresh the keys of the buffer are exactly the positions
\* anchor + (column, row) of the cells of the windows now in the list.
C16_SparseKeySet == AfterRefresh => DOMAIN buffer = Cover(windows)

\* C16 witness: between two refreshes the caller made several mutations and
\* removed a window; a position it covered is no key any more, a position two
\* remaining windows cover is.
C16_Witness ==
    /\ AfterLaterRefresh
    /\ mut.op = "many"
    /\ mut.gone \ Cover(windows) # {}
    /\ Len(windows) >= 2
    /\ DOMAIN buffer = Cover(windows)
    /\ DOMAIN buffer # {}

Painted(wins) ==
    [p \in Cover(wins) |-> ValueAt(wins[Topmost(wins, p)], p)]

\* C18: after a refresh the buffer is a function of the current window list
\* alone, so containers with equal window lists have equal buffers whatever
\* windows, mutations and refreshes came before.
C18_HistoryIndependence == AfterRefresh => buffer = Painted(windows)

\* C18 witness: the refresh follows an earlier refresh and one cell edit, so
\* the buffer held before the call had another value at the edited position.
C18_Witness ==
    /\ AfterLaterRefresh
    /\ mut.op = "set"
    /\ Covering(windows, mut.pos) # {}
    /\ \A i \in Covering(windows, mut.pos) : i = Topmost(windows, mut.pos)
    /\ Len(windows) >= 2
    /\ buffer = Painted(windows)

====
